---- MODULE Spec2Model ----
(***************************************************************************)
(* A model of primality.py: the process-wide table of small primes         *)
(* (class Primes), the primality oracle, the trial-division factorizer,    *)
(* the divisor functions and the multiplicative-function wrapper.          *)
(*                                                                         *)
(* One action is one call of a public operation by the (single-threaded)   *)
(* caller.  The call's name, argument and returned value are kept in       *)
(* op / arg / flag / result so that properties of the returned value can   *)
(* be stated; Return is the caller taking the value and going on.          *)
(***************************************************************************)
EXTENDS Integers, Sequences, FiniteSets, TLC

VARIABLES
    odd_primes_list,    \* Primes.odd_primes_list: ascending list of odd primes
    small_primes_set,   \* Primes.small_primes_set
    last_tested,        \* Primes.last_tested
    op,                 \* the operation that was just called ("none": idle)
    arg,                \* its argument n (for sieve: twice the stop value)
    flag,               \* its second argument (sieve=..., or k of sigma)
    result,             \* the value it returned
    tested,             \* the candidates the sieve trial-divided during the call
    calls,              \* the pairs <<p, e>> a wrapped evaluator f was called with
    frame,              \* a call run pass by pass: its local variables
    status,             \* Aliquot.status
    threads             \* two threads inside sieve: their locals, and the lock

vars ==
    <<odd_primes_list, small_primes_set, last_tested, op, arg, flag, result, tested,
      calls, frame, status, threads>>

(***************************************************************************)
(* Bounds of the model.                                                    *)
(***************************************************************************)
\* arguments n of the operations that may grow the table: -MaxN .. MaxN
MaxN == 60
\* arguments n of the queries made with sieve=False: -MaxQuery .. MaxQuery
MaxQuery == 180
\* exponents k of sigma: 0 .. MaxK
MaxK == 2
\* starting values n of the aliquot sequences: -6 .. MaxStart
MaxStart == 50
\* lengths a periodic sequence is padded to: 0 .. MaxPad
MaxPad == 6
\* stop values of the sieve calls made by the threads: 1 .. MaxThreadStop
MaxThreadStop == 16
\* denominators of the rational arguments x and epsilon: 1 .. MaxDen
MaxDen == 10

(***************************************************************************)
(* Python values.  A value is a pair <<type tag, payload>>; a list is      *)
(* <<"list", sequence>>.  float('inf') and float('nan') have no payload.   *)
(***************************************************************************)
PyInt(n) == <<"int", n>>
PyTrue == <<"bool", 1>>
PyFalse == <<"bool", 0>>
PyBool(b) == IF b THEN PyTrue ELSE PyFalse
PyInf == <<"inf", 0>>
PyNaN == <<"nan", 0>>
PyNone == <<"none", 0>>
PyList(s) == <<"list", s>>

\* the float whose value is the integer v (2.0, -1.0, 0.0)
PyFloat(v) == <<"float", v>>

IsNumber(v) == v[1] \in {"int", "bool", "float"}

\* isinstance(v, int): bool is a subclass of int
IsInt(v) == v[1] \in {"int", "bool"}

\* Python's ==: bool is a subclass of int and compares by value; inf equals
\* inf; nan equals nothing, itself included; a list equals a list with equal
\* elements and never a number.
PyEq(a, b) ==
    IF IsNumber(a) /\ IsNumber(b) THEN a[2] = b[2]
    ELSE IF a[1] = "nan" \/ b[1] = "nan" THEN FALSE
    ELSE IF a[1] = "list" /\ b[1] = "list" THEN a[2] = b[2]
    ELSE a[1] = b[1]

\* Python's truth value of an object used by itself as a condition.
Truthy(v) ==
    IF IsNumber(v) THEN v[2] # 0
    ELSE IF v[1] = "list" THEN Len(v[2]) > 0
    ELSE IF v[1] = "none" THEN FALSE
    ELSE TRUE

Abs(n) == IF n < 0 THEN -n ELSE n

(***************************************************************************)
(* primality.py:39-40                                                      *)
(***************************************************************************)
\* a value of its own, equal to no number
MaybeDedicated == <<"maybe", 0>>

\* Maybe = float("inf")
Maybe == PyInf

\* integer square root
Isqrt(x) == CHOOSE r \in 0..x : r * r <= x /\ (r + 1) * (r + 1) > x
\* a target computed with the conjugate (sqrt(5) - 1) / 2 instead of phi
IntPhiTimesConjugate(t) == (Isqrt(5 * t * t) - t) \div 2

\* int(last_tested * phi) with phi = (1+sqrt(5))/2: the floor of
\* (t + sqrt(5 t^2)) / 2, which is (t + isqrt(5 t^2)) div 2 because a floor of
\* a half is the floor of the half of the floor.
IntPhiTimes(t) == (t + Isqrt(5 * t * t)) \div 2

(***************************************************************************)
(* The table as a value: what an operation reads and what it leaves.       *)
(*   list, set, last : the three class variables                           *)
(*   tested          : candidates trial-divided so far in this call        *)
(*   calls           : pairs handed to a wrapped evaluator in this call    *)
(*   res             : the value returned                                  *)
(***************************************************************************)
Table ==
    [list |-> odd_primes_list, set |-> small_primes_set, last |-> last_tested,
     tested |-> <<>>, calls |-> <<>>, res |-> PyNone]

Ret(st, v) == [st EXCEPT !.res = v]

(***************************************************************************)
(* Primes.sieve, primality.py:74-105.  stop may be any real number; the    *)
(* model takes stop from the half-integers and carries stop2 = 2 * stop.   *)
(***************************************************************************)
\* a trial division that skips the first listed prime
NoListedDivisorSkipFirst(list, c) == \A i \in 2..Len(list) : c % list[i] # 0

\* a trial division that never resets is_prime
NoListedDivisorAssumed(list, c) == TRUE

\* lines 98-102: trial division of candidate c by the listed odd primes
NoListedDivisor(list, c) == \A i \in 1..Len(list) : c % list[i] # 0

\* a pass that appends the new prime to the list and forgets the set
SieveStepNoSetAdd(st) ==
    LET c == st.last + 2
        is_prime == NoListedDivisor(st.list, c)
    IN  [st EXCEPT !.last = c,
                   !.list = IF is_prime THEN Append(@, c) ELSE @,
                   !.tested = Append(@, c)]

\* a pass that tests last_tested itself before advancing it
SieveStepRetest(st) ==
    LET c == st.last
        is_prime == NoListedDivisor(st.list, c)
    IN  [st EXCEPT !.last = c + 2,
                   !.list = IF is_prime THEN Append(@, c) ELSE @,
                   !.set = IF is_prime THEN @ \cup {c} ELSE @,
                   !.tested = Append(@, c)]

\* lines 97-105: one pass of the while loop
SieveStep(st) ==
    LET c == st.last + 2
        is_prime == NoListedDivisor(st.list, c)
    IN  [st EXCEPT !.last = c,
                   !.list = IF is_prime THEN Append(@, c) ELSE @,
                   !.set = IF is_prime THEN @ \cup {c} ELSE @,
                   !.tested = Append(@, c)]

\* a loop whose test is "stop >= last_tested"
RECURSIVE SieveLoopInclusive(_, _)
SieveLoopInclusive(st, stop2) ==
    IF stop2 >= 2 * st.last THEN SieveLoopInclusive(SieveStep(st), stop2) ELSE st

\* line 96: while stop > cls.last_tested
RECURSIVE SieveLoop(_, _)
SieveLoop(st, stop2) ==
    IF stop2 > 2 * st.last THEN SieveLoop(SieveStep(st), stop2) ELSE st

\* a sieve without "stop = abs(stop)"
SieveNoAbs(st, stop2) ==
    IF stop2 = 0 THEN Ret(st, PyNone)
    ELSE Ret(SieveLoop(st, stop2), PyNone)

\* lines 87-92: "if not stop: return", then stop = abs(stop)
Sieve(st, stop2) ==
    IF stop2 = 0 THEN Ret(st, PyNone)
    ELSE Ret(SieveLoop(st, Abs(stop2)), PyNone)

(***************************************************************************)
(* The primality oracle, primality.py:117-196.                             *)
(***************************************************************************)
\* lines 143-145: "for p in odd_primes_list: if n % p == 0: return False"
SomeListedDivisor(list, n) == \E i \in 1..Len(list) : n % list[i] = 0

\* a sieve=False branch without the test against last_tested squared
IrreducibleNoSieveNoBound(st, n) ==
    IF n \in st.set THEN PyTrue
    ELSE IF n <= st.last THEN PyFalse
    ELSE IF n % 2 = 0 THEN PyFalse
    ELSE IF SomeListedDivisor(st.list, n) THEN PyFalse
    ELSE PyTrue

\* lines 134-153: the branch taken with sieve=False, n = abs(n) already
IrreducibleNoSieve(st, n) ==
    IF n \in st.set THEN PyTrue
    ELSE IF n <= st.last THEN PyFalse
    ELSE IF n % 2 = 0 THEN PyFalse
    ELSE IF SomeListedDivisor(st.list, n) THEN PyFalse
    ELSE IF n < st.last * st.last THEN PyTrue
    ELSE Maybe

\* a sieve=True branch that looks n up without growing the table
IrreducibleSieveNoGrowth(st, n) == Ret(st, PyBool(n \in st.set))

\* lines 127-129: the branch taken with sieve=True, n = abs(n) already
IrreducibleSieve(st, n) ==
    LET s1 == Sieve(st, 2 * n)
    IN  Ret(s1, PyBool(n \in s1.set))

\* an is_irreducible that sieves whatever its flag says
IsIrreducibleAlwaysSieves(st, n, sieve) == IrreducibleSieve(st, Abs(n))

\* Primes.is_irreducible(n, sieve)
IsIrreducible(st, n, sieve) ==
    IF sieve THEN IrreducibleSieve(st, Abs(n))
    ELSE Ret(st, IrreducibleNoSieve(st, Abs(n)))

\* an is_prime without the case n == 0
IsPrimeNoZeroCase(st, n, sieve) == IsIrreducible(st, n, sieve)

\* Primes.is_prime(n, sieve)
IsPrime(st, n, sieve) ==
    IF n = 0 THEN Ret(st, PyTrue) ELSE IsIrreducible(st, n, sieve)

\* Primes.is_unit(n)
IsUnit(n) == PyBool(n \in {-1, 1})

\* line 195: f = {True:False, False:True, Maybe:Maybe}
NegateTernary(v) ==
    IF PyEq(v, PyTrue) THEN PyFalse
    ELSE IF PyEq(v, PyFalse) THEN PyTrue
    ELSE Maybe

\* Primes.is_composite(n, sieve)
IsComposite(st, n, sieve) ==
    IF Truthy(IsUnit(n)) THEN Ret(st, PyFalse)
    ELSE LET r == IsPrime(st, n, sieve) IN Ret(r, NegateTernary(r.res))

(***************************************************************************)
(* The factorizer, primality.py:198-294.  A factor list is a sequence      *)
(* whose elements are <<unit>> (a bare number) or <<p, e>> (a list [p,e]). *)
(***************************************************************************)
\* Primes.extract_power(n, p): <<e, q>>; e counts the passes of the loop
RECURSIVE ExtractPowerFrom(_, _, _)
ExtractPowerFrom(e, n, p) ==
    IF n % p = 0 THEN ExtractPowerFrom(e + 1, n \div p, p) ELSE <<e, n>>

ExtractPower(n, p) == ExtractPowerFrom(0, n, p)

\* a strip that appends [p, e] without the test "e > 0"
StripPrimeKeepZero(acc, p) ==
    LET en == ExtractPower(acc.n, p)
    IN  [n |-> en[2], factors |-> Append(acc.factors, <<p, en[1]>>)]

\* "e, n = extract_power(n, p); if e > 0: factors.append([p,e])"
\* acc = [n, factors]
StripPrime(acc, p) ==
    LET en == ExtractPower(acc.n, p)
    IN  [n |-> en[2],
         factors |-> IF en[1] > 0 THEN Append(acc.factors, <<p, en[1]>>)
                     ELSE acc.factors]

\* lines 246-251 and 264-271: strip the listed primes from index i on, in
\* list order, stopping as soon as the cofactor is 1.  m is the index after
\* the last prime used.
RECURSIVE ScanFrom(_, _, _)
ScanFrom(list, i, acc) ==
    IF i > Len(list) THEN [n |-> acc.n, factors |-> acc.factors, m |-> i - 1]
    ELSE LET a1 == StripPrime(acc, list[i])
         IN  IF a1.n = 1 THEN [n |-> 1, factors |-> a1.factors, m |-> i]
             ELSE ScanFrom(list, i + 1, a1)

\* a loop that gives up: the factors found so far, the table as it is
GrowLoopGivesUp(st, m, acc) == Ret(st, PyList(acc.factors))

\* a loop that takes the cofactor for a prime as soon as it is below
\* last_tested squared
RECURSIVE GrowLoopShortCircuit(_, _, _)
GrowLoopShortCircuit(st, m, acc) ==
    IF acc.n > 1
    THEN IF acc.n < st.last * st.last
         THEN Ret(st, PyList(Append(acc.factors, <<acc.n, 1>>)))
         ELSE LET s1 == Sieve(st, 2 * IntPhiTimes(st.last))
                  a1 == ScanFrom(s1.list, m + 1, acc)
              IN  GrowLoopShortCircuit(s1, a1.m, [n |-> a1.n, factors |-> a1.factors])
    ELSE Ret(st, PyList(acc.factors))

\* lines 261-271: "while n > 1": sieve to int(last_tested * phi), then strip
\* the primes appended since index m
RECURSIVE GrowLoop(_, _, _)
GrowLoop(st, m, acc) ==
    IF acc.n > 1
    THEN LET s1 == Sieve(st, 2 * IntPhiTimes(st.last))
             a1 == ScanFrom(s1.list, m + 1, acc)
         IN  GrowLoop(s1, a1.m, [n |-> a1.n, factors |-> a1.factors])
    ELSE Ret(st, PyList(acc.factors))

\* a factor_slow whose unit is always 1
FactorSlowNoSign(st, n) ==
    IF n = 0 THEN Ret(st, PyInt(0))
    ELSE LET a0 == [n |-> Abs(n), factors |-> <<<<1>>>>]
         IN  IF a0.n = 1 THEN Ret(st, PyList(a0.factors))
             ELSE LET a2 == StripPrime(a0, 2)
                  IN  IF a2.n = 1 THEN Ret(st, PyList(a2.factors))
                      ELSE LET a3 == ScanFrom(st.list, 1, a2)
                           IN  IF a3.n = 1 THEN Ret(st, PyList(a3.factors))
                               ELSE GrowLoop(st, Len(st.list),
                                             [n |-> a3.n, factors |-> a3.factors])

\* Primes.factor_slow(n)
FactorSlow(st, n) ==
    IF n = 0 THEN Ret(st, PyInt(0))
    ELSE LET unit == IF n > 0 THEN 1 ELSE -1
             a0 == [n |-> Abs(n), factors |-> <<<<unit>>>>]
         IN  IF a0.n = 1 THEN Ret(st, PyList(a0.factors))
             ELSE LET a2 == StripPrime(a0, 2)
                  IN  IF a2.n = 1 THEN Ret(st, PyList(a2.factors))
                      ELSE LET a3 == ScanFrom(st.list, 1, a2)
                           IN  IF a3.n = 1 THEN Ret(st, PyList(a3.factors))
                               ELSE GrowLoop(st, Len(st.list),
                                             [n |-> a3.n, factors |-> a3.factors])

\* "for _ in range(e): n *= p"
RECURSIVE TimesPower(_, _, _)
TimesPower(n, p, e) == IF e <= 0 THEN n ELSE TimesPower(n * p, p, e - 1)

\* An element of a factor list is <<u>> (a bare number), <<p, e>> (the list
\* [p, e] with e an int) or <<p, e, "float">> (the list [p, e] with e the
\* float of that value, which is no int).
\* isinstance(factor, list)
IsPair(factor) == Len(factor) >= 2

\* isinstance(e, int) for the e of a pair
HasIntExponent(factor) == Len(factor) = 2

\* a loop without the two checks of the exponent
RECURSIVE MultiplyFromNoChecks(_, _, _)
MultiplyFromNoChecks(n, factors, i) ==
    IF i > Len(factors) THEN PyInt(n)
    ELSE LET factor == factors[i]
         IN  IF IsPair(factor)
             THEN MultiplyFromNoChecks(TimesPower(n, factor[1], factor[2]),
                                       factors, i + 1)
             ELSE MultiplyFromNoChecks(n * factor[1], factors, i + 1)

\* lines 283-293: the loop over the factors; a pair whose exponent is no
\* int raises TypeError, a pair with a negative exponent raises ValueError
RECURSIVE MultiplyFrom(_, _, _)
MultiplyFrom(n, factors, i) ==
    IF i > Len(factors) THEN PyInt(n)
    ELSE LET factor == factors[i]
         IN  IF IsPair(factor)
             THEN IF ~HasIntExponent(factor) THEN <<"raise", "TypeError">>
                  ELSE IF factor[2] < 0 THEN <<"raise", "ValueError">>
                  ELSE MultiplyFrom(TimesPower(n, factor[1], factor[2]), factors, i + 1)
             ELSE MultiplyFrom(n * factor[1], factors, i + 1)

\* Primes.multiply(factors)
Multiply(factors) ==
    IF PyEq(factors, PyInt(0)) THEN PyInt(0)
    ELSE IF factors[1] # "list" THEN <<"raise", "TypeError">>
    ELSE MultiplyFrom(1, factors[2], 1)

(***************************************************************************)
(* The divisor functions, primality.py:296-390.                            *)
(***************************************************************************)
\* a count that multiplies by e where the code multiplies by e+1
RECURSIVE DivisorCountNoPlusOne(_, _, _)
DivisorCountNoPlusOne(divisors, factors, i) ==
    IF i > Len(factors) THEN divisors
    ELSE IF Len(factors[i]) = 2
         THEN DivisorCountNoPlusOne(divisors * factors[i][2], factors, i + 1)
         ELSE DivisorCountNoPlusOne(divisors, factors, i + 1)

\* lines 318-329: the product of e+1 over the pairs of the factor list
RECURSIVE DivisorCount(_, _, _)
DivisorCount(divisors, factors, i) ==
    IF i > Len(factors) THEN divisors
    ELSE IF Len(factors[i]) = 2
         THEN DivisorCount(divisors * (factors[i][2] + 1), factors, i + 1)
         ELSE DivisorCount(divisors, factors, i + 1)

\* Primes.d(n)
D(st, n) ==
    IF n = 0 THEN Ret(st, PyInf)
    ELSE IF Abs(n) = 1 THEN Ret(st, PyInt(1))
    ELSE LET r == FactorSlow(st, Abs(n))
         IN  Ret(r, PyInt(DivisorCount(1, r.res[2], 1)))

\* p ** k for an integer k >= 0
RECURSIVE Pow(_, _)
Pow(p, k) == IF k <= 0 THEN 1 ELSE p * Pow(p, k - 1)

\* a geometric sum that stops one term early
RECURSIVE GeometricSumShort(_, _, _, _)
GeometricSumShort(t, a, m, left) ==
    IF left <= 1 THEN t ELSE GeometricSumShort(t + a, a * m, m, left - 1)

\* lines 377-379: "for f in range(e+1): t += a; a *= m", from t, a with
\* left passes to go
RECURSIVE GeometricSum(_, _, _, _)
GeometricSum(t, a, m, left) ==
    IF left <= 0 THEN t ELSE GeometricSum(t + a, a * m, m, left - 1)

\* a loop with "s += t" where the code has "s *= t"
RECURSIVE SigmaProductAdds(_, _, _, _)
SigmaProductAdds(s, factors, i, k) ==
    IF i > Len(factors) THEN s
    ELSE IF Len(factors[i]) = 2
         THEN SigmaProductAdds(
                  s + GeometricSum(0, 1, Pow(factors[i][1], k), factors[i][2] + 1),
                  factors, i + 1, k)
         ELSE SigmaProductAdds(s, factors, i + 1, k)

\* lines 372-380: the loop over the factor list
RECURSIVE SigmaProduct(_, _, _, _)
SigmaProduct(s, factors, i, k) ==
    IF i > Len(factors) THEN s
    ELSE IF Len(factors[i]) = 2
         THEN SigmaProduct(
                  s * GeometricSum(0, 1, Pow(factors[i][1], k), factors[i][2] + 1),
                  factors, i + 1, k)
         ELSE SigmaProduct(s, factors, i + 1, k)

\* Primes.sigma(n, k), k an integer >= 0
Sigma(st, n, k) ==
    IF k = 0 THEN D(st, n)
    ELSE IF n = 0 THEN Ret(st, PyNaN)
    ELSE LET s == IF n > 0 THEN 1 ELSE Pow(-1, k)
         IN  IF Abs(n) = 1 THEN Ret(st, PyInt(s))
             ELSE LET r == FactorSlow(st, Abs(n))
                  IN  Ret(r, PyInt(SigmaProduct(s, r.res[2], 1, k)))

\* float arithmetic "x - n" with x nan or inf gives x; else the integer
PyMinus(x, n) == IF IsNumber(x) THEN PyInt(x[2] - n) ELSE x

\* Primes.s(n) = sigma(n) - n
ProperDivisorSum(st, n) ==
    LET r == Sigma(st, n, 1) IN Ret(r, PyMinus(r.res, n))

(***************************************************************************)
(* The multiplicative wrapper, primality.py:394-582.                       *)
(***************************************************************************)
\* an evaluator with "e < 3" where the code has "e < 2"
SquareFreeAtCube(p, e) == IF e < 3 THEN 1 ELSE 0

\* the undecorated square_free(p, e), line 533
SquareFreeAt(p, e) == IF e < 2 THEN 1 ELSE 0

\* an evaluator that is right for e = 1 only: p^e - 1
TotientAtMinusOne(p, e) == Pow(p, e) - 1

\* the undecorated totient(p, e), lines 581-582
TotientAt(p, e) == Pow(p, e) - (Pow(p, e) \div p)

\* f(*factor) for the evaluator that the wrapper closed over, by its name
Evaluate(f, p, e) ==
    IF f = "square_free" THEN SquareFreeAt(p, e) ELSE TotientAt(p, e)

\* lines 452-454: "retval *= f(*factor)" over the pairs;
\* acc = [retval, calls], calls the pairs f has been called with
RECURSIVE WrappedProduct(_, _, _, _)
WrappedProduct(f, acc, factors, i) ==
    IF i > Len(factors) THEN acc
    ELSE IF Len(factors[i]) = 2
         THEN WrappedProduct(
                  f,
                  [retval |-> acc.retval * Evaluate(f, factors[i][1], factors[i][2]),
                   calls |-> Append(acc.calls, factors[i])],
                  factors, i + 1)
         ELSE WrappedProduct(f, acc, factors, i + 1)

\* a wrapped_f that starts from 1 for negative n too
WrappedFNoSign(f, minus1, zero, st, n) ==
    IF n = 0 THEN Ret(st, zero)
    ELSE LET r == FactorSlow(st, Abs(n))
             w == WrappedProduct(f, [retval |-> 1, calls |-> st.calls], r.res[2], 1)
         IN  [r EXCEPT !.res = PyInt(w.retval), !.calls = w.calls]

\* wrapped_f(n) for the evaluator f decorated with multiplicative(minus1, zero)
WrappedF(f, minus1, zero, st, n) ==
    IF n = 0 THEN Ret(st, zero)
    ELSE LET retval == IF n > 0 THEN 1 ELSE minus1
             r == FactorSlow(st, Abs(n))
             w == WrappedProduct(f, [retval |-> retval, calls |-> st.calls],
                                 r.res[2], 1)
         IN  [r EXCEPT !.res = PyInt(w.retval), !.calls = w.calls]

\* "x in {...}" for freshly made values: some member equals x
PyIn(x, members) == \E y \in members : PyEq(x, y)

\* multiplicative(minus1, zero), lines 394-465: the two checks, then the
\* decorator "wrap" closed over minus1 and zero
Multiplicative(minus1, zero) ==
    IF ~PyIn(PyInt(minus1), {PyInt(-1), PyInt(0), PyInt(1)})
    THEN <<"raise", "ValueError">>
    ELSE IF ~PyIn(zero, {PyInt(0), PyInf, PyNaN})
    THEN <<"raise", "ValueError">>
    ELSE <<"wrap", <<minus1, zero>>>>

\* @multiplicative(1, 0) square_free
SquareFree(st, n) == WrappedF("square_free", 1, PyInt(0), st, n)

\* @multiplicative(-1, 0) totient
Totient(st, n) == WrappedF("totient", -1, PyInt(0), st, n)

(***************************************************************************)
(* The same methods called with an argument of any type: what each does    *)
(* before it reaches the integer arithmetic modelled above.                *)
(***************************************************************************)
\* lines 121-122: is_irreducible tests the type first
IsIrreducibleOf(st, v, sieve) ==
    IF ~IsInt(v) THEN Ret(st, <<"raise", "TypeError">>)
    ELSE IsIrreducible(st, v[2], sieve)

\* lines 165-168: is_prime compares with 0, then calls is_irreducible
IsPrimeOf(st, v, sieve) ==
    IF PyEq(v, PyInt(0)) THEN Ret(st, PyTrue) ELSE IsIrreducibleOf(st, v, sieve)

\* line 178: n in {-1, 1}
IsUnitOf(v) == PyBool(PyIn(v, {PyInt(-1), PyInt(1)}))

\* lines 193-196: is_composite asks is_unit, then is_prime
IsCompositeOf(st, v, sieve) ==
    IF Truthy(IsUnitOf(v)) THEN Ret(st, PyFalse)
    ELSE LET r == IsPrimeOf(st, v, sieve)
         IN  IF r.res[1] = "raise" THEN r ELSE Ret(r, NegateTernary(r.res))

\* lines 225-226: factor_slow tests the type first
FactorSlowOf(st, v) ==
    IF ~IsInt(v) THEN Ret(st, <<"raise", "TypeError">>) ELSE FactorSlow(st, v[2])

\* lines 306-307: d tests the type first
DOf(st, v) ==
    IF ~IsInt(v) THEN Ret(st, <<"raise", "TypeError">>) ELSE D(st, v[2])

\* lines 356-357: sigma tests the type first
SigmaOf(st, v, k) ==
    IF ~IsInt(v) THEN Ret(st, <<"raise", "TypeError">>) ELSE Sigma(st, v[2], k)

\* line 390: s(n) = sigma(n) - n
ProperDivisorSumOf(st, v) ==
    LET r == SigmaOf(st, v, 1)
    IN  IF r.res[1] = "raise" THEN r ELSE Ret(r, PyMinus(r.res, v[2]))

\* the call name(v) with the defaults sieve=True and k=1
CallOf(name, st, v) ==
    CASE name = "is_irreducible" -> IsIrreducibleOf(st, v, TRUE)
      [] name = "is_prime" -> IsPrimeOf(st, v, TRUE)
      [] name = "is_composite" -> IsCompositeOf(st, v, TRUE)
      [] name = "factor_slow" -> FactorSlowOf(st, v)
      [] name = "d" -> DOf(st, v)
      [] name = "sigma" -> SigmaOf(st, v, 1)
      [] name = "s" -> ProperDivisorSumOf(st, v)

(***************************************************************************)
(* Aliquot sequences, aliquot.py.  A sequence is held as the list of the   *)
(* Python values primes.s returned, the starting value not included.       *)
(***************************************************************************)
\* lines 69-75: the termination constants
PREMATURE_TERMINATION == 90
TERMINATING == 1
PERIODIC == 2
LENGTH_EXCEEDED == 3
LARGEST_EXCEEDED == 4
SIEVE_OVERFLOW == 5

\* the loop's tests with the length test put first
AliquotCheckLengthFirst(n, seq, domain, pmax, max_length, largest, largest_prime) ==
    IF Len(seq) >= max_length THEN LENGTH_EXCEEDED
    ELSE IF PyEq(n, PyInt(0)) THEN TERMINATING
    ELSE IF PyIn(n, domain) THEN PERIODIC
    ELSE IF IsNumber(n) /\ n[2] > largest THEN LARGEST_EXCEEDED
    ELSE IF pmax > largest_prime THEN SIEVE_OVERFLOW
    ELSE 0

\* lines 130-152: the tests made on the new term n, which is already the
\* last of seq, in the order of the code; the status the call ends with, or
\* 0 when the loop goes on
AliquotCheck(n, seq, domain, pmax, max_length, largest, largest_prime) ==
    IF PyEq(n, PyInt(0)) THEN TERMINATING
    ELSE IF PyIn(n, domain) THEN PERIODIC
    ELSE IF Len(seq) >= max_length THEN LENGTH_EXCEEDED
    ELSE IF IsNumber(n) /\ n[2] > largest THEN LARGEST_EXCEEDED
    ELSE IF pmax > largest_prime THEN SIEVE_OVERFLOW
    ELSE 0

\* lines 125-160: "while True" from the term n on, r being what primes.s(n)
\* left and returned; primes.s may raise, and then the status is the one
\* set on entry
RECURSIVE AliquotLoop(_, _, _, _, _, _)
AliquotLoop(r, seq, domain, max_length, largest, largest_prime) ==
    IF r.res[1] = "raise"
    THEN [st |-> r, status |-> PREMATURE_TERMINATION]
    ELSE IF AliquotCheck(r.res, Append(seq, r.res), domain, r.list[Len(r.list)],
                         max_length, largest, largest_prime) # 0
    THEN [st |-> Ret(r, PyList(Append(seq, r.res))),
          status |-> AliquotCheck(r.res, Append(seq, r.res), domain,
                                  r.list[Len(r.list)], max_length, largest,
                                  largest_prime)]
    ELSE AliquotLoop(ProperDivisorSumOf(r, r.res), Append(seq, r.res),
                     domain \cup {r.res}, max_length, largest, largest_prime)

\* Aliquot.aliquot_sequence(n, max_length, largest, largest_prime), lines
\* 118-160: the table it leaves with the value returned, and Aliquot.status
AliquotSequence(st, v, max_length, largest, largest_prime) ==
    IF ~IsInt(v)
    THEN [st |-> Ret(st, <<"raise", "TypeError">>), status |-> PREMATURE_TERMINATION]
    ELSE AliquotLoop(ProperDivisorSumOf(st, PyInt(Abs(v[2]))), <<>>, {},
                     max_length, largest, largest_prime)

\* lines 177-180: "while seq[index] != last_term: index -= 1" from
\* index = -k on; the k it stops at (seq[-k] is seq[Len(seq) - k + 1])
RECURSIVE PeriodIndex(_, _)
PeriodIndex(seq, k) ==
    IF seq[Len(seq) - k + 1] # seq[Len(seq)] THEN PeriodIndex(seq, k + 1) ELSE k

\* lines 185-186: "while len(seq) < length: seq.append(seq[index])" with
\* index = -k
RECURSIVE PadLoop(_, _, _)
PadLoop(seq, k, length) ==
    IF Len(seq) < length
    THEN PadLoop(Append(seq, seq[Len(seq) - k + 1]), k, length)
    ELSE seq

\* pad_periodic_seq(seq, length), lines 171-186: the list it leaves in seq
PadPeriodicSeq(seq, length) == PadLoop(seq, PeriodIndex(seq, 2), length)

(***************************************************************************)
(* Unit-fraction expansions, sylvester.py and harmonic.py, on arguments of *)
(* type fractions.Fraction.  A fraction is the pair <<numerator,           *)
(* denominator>> in lowest terms, denominator > 0, as Fraction keeps it.   *)
(***************************************************************************)
RECURSIVE GcdEuclid(_, _)
GcdEuclid(a, b) == IF b = 0 THEN a ELSE GcdEuclid(b, a % b)

\* Fraction(p, q) for q > 0
Fraction(p, q) == LET g == GcdEuclid(Abs(p), q) IN <<p \div g, q \div g>>

\* x - y, x + y and x < y on fractions
FracMinus(x, y) == Fraction(x[1] * y[2] - y[1] * x[2], x[2] * y[2])
FracPlus(x, y) == Fraction(x[1] * y[2] + y[1] * x[2], x[2] * y[2])
FracLess(x, y) == x[1] * y[2] < y[1] * x[2]

\* floor(x)
Floor(x) == x[1] \div x[2]

\* floor(1/x) for x > 0
FloorInverse(x) == x[2] \div x[1]

\* ceil(1/x) for x > 0
CeilInverse(x) == (x[2] + x[1] - 1) \div x[1]

\* sylvester.py lines 117-120: result = [u], x -= u
SylvesterEntry(x) ==
    LET u == Floor(x) IN [x |-> FracMinus(x, <<u, 1>>), result |-> <<u>>]

\* lines 121-124: one pass of "while x > epsilon"
SylvesterPass(loc) ==
    LET n == CeilInverse(loc.x)
    IN  [x |-> FracMinus(loc.x, Fraction(1, n)), result |-> Append(loc.result, n)]

\* lines 121-125: the loop
RECURSIVE SylvesterLoop(_, _)
SylvesterLoop(loc, epsilon) ==
    IF FracLess(epsilon, loc.x) THEN SylvesterLoop(SylvesterPass(loc), epsilon)
    ELSE loc.result

\* lines 113-116 (harmonic.py 92-95): the checks of epsilon made on entry;
\* PyNone when they pass
EpsilonCheck(epsilon, debug) ==
    IF debug /\ ~FracLess(<<0, 1>>, epsilon) THEN <<"raise", "AssertionError">>
    ELSE IF FracLess(epsilon, <<0, 1>>) THEN <<"raise", "ValueError">>
    ELSE PyNone

\* sylvester(x, epsilon, debug), lines 93-125
Sylvester(x, epsilon, debug) ==
    IF EpsilonCheck(epsilon, debug) # PyNone THEN EpsilonCheck(epsilon, debug)
    ELSE PyList(SylvesterLoop(SylvesterEntry(x), epsilon))

\* value_of(result) of sylvester.py, lines 127-132, from the term i on
RECURSIVE ValueFrom(_, _, _)
ValueFrom(terms, i, x) ==
    IF i > Len(terms) THEN x
    ELSE ValueFrom(terms, i + 1, FracPlus(x, Fraction(1, terms[i])))

ValueOf(terms) == ValueFrom(terms, 2, <<terms[1], 1>>)

\* harmonic.py lines 99-106: "while x >= epsilon and x > 0"
RECURSIVE HarmonicLoop(_, _, _, _)
HarmonicLoop(x, epsilon, terms, m) ==
    IF ~FracLess(x, epsilon) /\ FracLess(<<0, 1>>, x)
    THEN LET c == CeilInverse(x)
             n == IF m + 1 > c THEN m + 1 ELSE c
         IN  HarmonicLoop(FracMinus(x, Fraction(1, n)), epsilon, Append(terms, n), n)
    ELSE terms

\* harmonic(x, epsilon, debug), harmonic.py lines 90-106
Harmonic(x, epsilon, debug) ==
    IF FracLess(x, <<0, 1>>) THEN <<"raise", "ValueError">>
    ELSE IF EpsilonCheck(epsilon, debug) # PyNone THEN EpsilonCheck(epsilon, debug)
    ELSE PyList(HarmonicLoop(x, epsilon, <<>>, 0))

(***************************************************************************)
(* The specification.                                                      *)
(***************************************************************************)
\* the two threads that share the table
Threads == {1, 2}

\* no thread is inside sieve, nobody holds the lock, and no sieve call has
\* yet been made without the lock
NoThreads ==
    [pc |-> [t \in Threads |-> "idle"],
     stop |-> [t \in Threads |-> 0],
     is_prime |-> [t \in Threads |-> TRUE],
     lock |-> 0,
     bare |-> FALSE]

\* no call is running pass by pass
NoFrame == [pc |-> "none", n |-> 0, m |-> 0, factors |-> <<>>, stop |-> 0]

Init ==
    /\ odd_primes_list = <<3, 5, 7>>
    /\ small_primes_set = {2, 3, 5, 7}
    /\ last_tested = 9
    /\ op = "none"
    /\ arg = 0
    /\ flag = 0
    /\ result = PyNone
    /\ tested = <<>>
    /\ calls = <<>>
    /\ frame = NoFrame
    /\ status = 0
    /\ threads = NoThreads

\* the caller is between two calls
Idle == op = "none"

\* the effect of a call that leaves the table as st and returns st.res
Called(name, n, f, st) ==
    /\ odd_primes_list' = st.list
    /\ small_primes_set' = st.set
    /\ last_tested' = st.last
    /\ op' = name
    /\ arg' = n
    /\ flag' = f
    /\ result' = st.res
    /\ tested' = st.tested
    /\ calls' = st.calls
    /\ frame' = frame
    /\ UNCHANGED <<status, threads>>

\* Primes.sieve(stop), stop = stop2 / 2
CallSieve ==
    /\ Idle
    /\ \E stop2 \in (-2 * MaxN)..(2 * MaxN) :
           Called("sieve", stop2, 0, Sieve(Table, stop2))

\* Primes(sieve_to): the constructor only calls sieve(sieve_to)
CallPrimes ==
    /\ Idle
    /\ \E sieve_to \in 0..MaxN :
           Called("Primes", sieve_to, 0, Sieve(Table, 2 * sieve_to))

\* the arguments n of a query: any integer within the bound of its mode
QueryArgs(sieve) == IF sieve = 1 THEN (-MaxN)..MaxN ELSE (-MaxQuery)..MaxQuery

\* primes.is_irreducible(n, sieve)
CallIsIrreducible ==
    /\ Idle
    /\ \E sieve \in {0, 1} : \E n \in QueryArgs(sieve) :
           Called("is_irreducible", n, sieve, IsIrreducible(Table, n, sieve = 1))

\* primes.is_prime(n, sieve)
CallIsPrime ==
    /\ Idle
    /\ \E sieve \in {0, 1} : \E n \in QueryArgs(sieve) :
           Called("is_prime", n, sieve, IsPrime(Table, n, sieve = 1))

\* primes.is_composite(n, sieve)
CallIsComposite ==
    /\ Idle
    /\ \E sieve \in {0, 1} : \E n \in QueryArgs(sieve) :
           Called("is_composite", n, sieve, IsComposite(Table, n, sieve = 1))

\* primes.is_unit(n)
CallIsUnit ==
    /\ Idle
    /\ \E n \in (-MaxN)..MaxN :
           Called("is_unit", n, 0, Ret(Table, IsUnit(n)))

\* Primes.extract_power(n, p), n >= 1 and p >= 2 (the loop does not end
\* for n = 0 or p = 1)
CallExtractPower ==
    /\ Idle
    /\ \E n \in 1..MaxN : \E p \in {2, 3, 5, 7} :
           Called("extract_power", n, p, Ret(Table, <<"tuple", ExtractPower(n, p)>>))

\* primes.factor_slow(n)
CallFactorSlow ==
    /\ Idle
    /\ \E n \in (-MaxN)..MaxN :
           Called("factor_slow", n, 0, FactorSlow(Table, n))

\* factor lists handed to multiply: the zero sentinel, well-formed lists,
\* a list with a negative exponent, and a value that is no list
SampleFactorLists ==
    { PyInt(0),
      PyList(<<<<1>>>>),
      PyList(<<<<-1>>>>),
      PyList(<<<<1>>, <<2, 3>>, <<3, 2>>, <<5, 1>>>>),
      PyList(<<<<-1>>, <<7, 2>>>>),
      PyList(<<<<1>>, <<2, 0>>>>),
      PyList(<<<<1>>, <<2, -1>>>>),
      PyList(<<<<1>>, <<2, 3>>, <<3, -2>>, <<5, 1>>>>),
      PyList(<<<<1>>, <<2, 2, "float">>>>),
      PyList(<<<<-1>>, <<3, 1>>, <<5, -1, "float">>>>),
      PyList(<<<<1>>, <<2, -1>>, <<3, 1, "float">>>>),
      PyList(<<<<1>>, <<2, 1, "float">>, <<3, -1>>>>),
      PyInt(6),
      PyTrue,
      PyNaN }

\* Primes.multiply(factors); arg holds the list itself
CallMultiply ==
    /\ Idle
    /\ \E factors \in SampleFactorLists :
           Called("multiply", factors, 0, Ret(Table, Multiply(factors)))

\* primes.d(n)
CallD ==
    /\ Idle
    /\ \E n \in (-MaxN)..MaxN :
           Called("d", n, 0, D(Table, n))

\* primes.sigma(n, k)
CallSigma ==
    /\ Idle
    /\ \E n \in (-MaxN)..MaxN : \E k \in 0..MaxK :
           Called("sigma", n, k, Sigma(Table, n, k))

\* the amicable pair of the self-test, lines 650-651
AmicablePair == {220, 284}

\* primes.s(n)
CallS ==
    /\ Idle
    /\ \E n \in (-MaxN)..MaxN \cup AmicablePair :
           Called("s", n, 0, ProperDivisorSum(Table, n))

\* square_free(n)
CallSquareFree ==
    /\ Idle
    /\ \E n \in (-MaxN)..MaxN :
           Called("square_free", n, 0, SquareFree(Table, n))

\* totient(n)
CallTotient ==
    /\ Idle
    /\ \E n \in (-MaxN)..MaxN :
           Called("totient", n, 0, Totient(Table, n))

\* the values offered as the convention "zero", and as "minus1" -2 .. 2
ZeroCandidates == {PyInt(0), PyInt(1), PyInt(-1), PyInf, PyNaN, PyNone}

\* multiplicative(minus1, zero): registration of the conventions
CallMultiplicative ==
    /\ Idle
    /\ \E minus1 \in (-2)..2 : \E zero \in ZeroCandidates :
           Called("multiplicative", minus1, zero,
                  Ret(Table, Multiplicative(minus1, zero)))

\* F(n) for F = multiplicative(minus1, zero)(f): the registration, the
\* wrapping of f and one call of the wrapped function
CallWrappedF ==
    /\ Idle
    /\ \E f \in {"square_free", "totient"} :
       \E minus1 \in (-2)..2 : \E zero \in ZeroCandidates :
       \E n \in (-MaxN)..MaxN :
           LET wrap == Multiplicative(minus1, zero)
           IN  /\ wrap[1] = "wrap"
               /\ Called("wrapped_f", n, <<f, minus1, zero>>,
                         WrappedF(f, wrap[2][1], wrap[2][2], Table, n))

\* the methods that take an integer n, and arguments that are no integers:
\* floats of integral value, inf, nan and None
IntegerMethods ==
    {"is_irreducible", "is_prime", "is_composite", "factor_slow", "d", "sigma", "s"}

NonIntegers ==
    {PyFloat(0), PyFloat(1), PyFloat(-1), PyFloat(2), PyFloat(7), PyInf, PyNaN, PyNone}

\* primes.name(v) for a v that is not an int
CallOnNonInteger ==
    /\ Idle
    /\ \E name \in IntegerMethods : \E v \in NonIntegers :
           Called("non_integer", v, name, CallOf(name, Table, v))

\* the caller takes the returned value
Return ==
    /\ op # "none"
    /\ frame.pc \in {"none", "done"}
    /\ op' = "none"
    /\ arg' = 0
    /\ flag' = 0
    /\ result' = PyNone
    /\ tested' = <<>>
    /\ calls' = <<>>
    /\ frame' = NoFrame
    /\ UNCHANGED <<odd_primes_list, small_primes_set, last_tested, status, threads>>

Next ==
    \/ CallSieve
    \/ CallPrimes
    \/ CallIsIrreducible
    \/ CallIsPrime
    \/ CallIsComposite
    \/ CallIsUnit
    \/ CallExtractPower
    \/ CallFactorSlow
    \/ CallMultiply
    \/ CallD
    \/ CallSigma
    \/ CallS
    \/ CallSquareFree
    \/ CallTotient
    \/ CallMultiplicative
    \/ CallWrappedF
    \/ CallOnNonInteger
    \/ Return

Spec == Init /\ [][Next]_vars

(***************************************************************************)
(* factor_slow run step by step, primality.py:212-273: the straight-line   *)
(* part up to the growth loop is one step, then every pass of a loop is    *)
(* one step: "while n > 1" computes its target, the sieve's "while stop >  *)
(* last_tested" tests one candidate, "while m < len(odd_primes_list)"      *)
(* strips one prime.  frame holds the locals: pc (where the call stands),  *)
(* n (the cofactor), m (the index into odd_primes_list), factors and stop. *)
(***************************************************************************)
\* lines 225-260: the frame on reaching "while n > 1", or on an early return
FactorSlowEntry(st, n) ==
    IF n = 0 THEN [NoFrame EXCEPT !.pc = "zero"]
    ELSE LET unit == IF n > 0 THEN 1 ELSE -1
             a0 == [n |-> Abs(n), factors |-> <<<<unit>>>>]
             a2 == StripPrime(a0, 2)
             a3 == ScanFrom(st.list, 1, a2)
         IN  IF a0.n = 1
             THEN [NoFrame EXCEPT !.pc = "return", !.n = 1, !.factors = a0.factors]
             ELSE IF a2.n = 1
             THEN [NoFrame EXCEPT !.pc = "return", !.n = 1, !.factors = a2.factors]
             ELSE IF a3.n = 1
             THEN [NoFrame EXCEPT !.pc = "return", !.n = 1, !.m = a3.m,
                                  !.factors = a3.factors]
             ELSE [NoFrame EXCEPT !.pc = "while", !.n = a3.n, !.m = Len(st.list),
                                  !.factors = a3.factors]

\* factor_slow(n) is called and runs up to its growth loop
FsCall ==
    /\ Idle
    /\ \E n \in (-MaxN)..MaxN :
           LET entry == FactorSlowEntry(Table, n)
           IN  /\ op' = "factor_slow"
               /\ arg' = n
               /\ flag' = 0
               /\ tested' = <<>>
               /\ calls' = <<>>
               /\ IF entry.pc = "zero"
                  THEN /\ frame' = [entry EXCEPT !.pc = "done"]
                       /\ result' = PyInt(0)
                  ELSE /\ frame' = entry
                       /\ result' = PyNone
               /\ UNCHANGED <<odd_primes_list, small_primes_set, last_tested,
                              status, threads>>

\* lines 261-263 and 87-92: "while n > 1" holds, stop = int(last_tested *
\* phi), sieve(stop) is entered and takes abs(stop)
FsTarget ==
    /\ frame.pc = "while"
    /\ frame.n > 1
    /\ frame' = [frame EXCEPT !.pc = "sieve",
                              !.stop = Abs(IntPhiTimes(last_tested))]
    /\ UNCHANGED <<odd_primes_list, small_primes_set, last_tested, op, arg, flag,
                   result, tested, calls, status, threads>>

\* lines 96-105: one pass of the sieve's loop "while stop > last_tested"
FsSieveStep ==
    /\ frame.pc = "sieve"
    /\ frame.stop > last_tested
    /\ LET s1 == SieveStep([Table EXCEPT !.tested = tested])
       IN  /\ odd_primes_list' = s1.list
           /\ small_primes_set' = s1.set
           /\ last_tested' = s1.last
           /\ tested' = s1.tested
    /\ UNCHANGED <<op, arg, flag, result, calls, frame, status, threads>>

\* line 96: the sieve's loop test fails, sieve returns
FsSieveDone ==
    /\ frame.pc = "sieve"
    /\ ~(frame.stop > last_tested)
    /\ frame' = [frame EXCEPT !.pc = "strip"]
    /\ UNCHANGED <<odd_primes_list, small_primes_set, last_tested, op, arg, flag,
                   result, tested, calls, status, threads>>

\* lines 264-271: one pass of "while m < len(odd_primes_list)"; "break"
\* when the cofactor is 1
FsStrip ==
    /\ frame.pc = "strip"
    /\ frame.m < Len(odd_primes_list)
    /\ LET a1 == StripPrime([n |-> frame.n, factors |-> frame.factors],
                            odd_primes_list[frame.m + 1])
       IN  frame' = [frame EXCEPT !.pc = IF a1.n = 1 THEN "while" ELSE "strip",
                                  !.n = a1.n,
                                  !.m = frame.m + 1,
                                  !.factors = a1.factors]
    /\ UNCHANGED <<odd_primes_list, small_primes_set, last_tested, op, arg, flag,
                   result, tested, calls, status, threads>>

\* line 264: the inner loop's test fails, back to "while n > 1"
FsStripDone ==
    /\ frame.pc = "strip"
    /\ ~(frame.m < Len(odd_primes_list))
    /\ frame' = [frame EXCEPT !.pc = "while"]
    /\ UNCHANGED <<odd_primes_list, small_primes_set, last_tested, op, arg, flag,
                   result, tested, calls, status, threads>>

\* "return factors": line 273 when the loop test fails, or an early return
FsReturn ==
    /\ \/ frame.pc = "return"
       \/ frame.pc = "while" /\ ~(frame.n > 1)
    /\ frame' = [frame EXCEPT !.pc = "done"]
    /\ result' = PyList(frame.factors)
    /\ UNCHANGED <<odd_primes_list, small_primes_set, last_tested, op, arg, flag,
                   tested, calls, status, threads>>

\* the next step of a factor_slow that is running
FsStep ==
    \/ FsTarget
    \/ FsSieveStep
    \/ FsSieveDone
    \/ FsStrip
    \/ FsStripDone
    \/ FsReturn

NextFactor ==
    \/ CallSieve
    \/ FsCall
    \/ FsStep
    \/ Return

\* the interpreter keeps executing a call that has begun
SpecFactor ==
    /\ Init
    /\ [][NextFactor]_vars
    /\ WF_vars(FsStep)

(***************************************************************************)
(* Aliquot sequences computed on the shared table.  Importing aliquot.py   *)
(* imports primality.py, whose line 392 runs Primes(20), so every call     *)
(* finds a table sieved to 21 or beyond.                                   *)
(***************************************************************************)
\* primality.py line 392, run by "from primality import primes":
\* primes = Primes(20)
ImportPrimality ==
    /\ Idle
    /\ Called("Primes", 20, 0, Sieve(Table, 2 * 20))

\* the starting values of the calls
AliquotStarts ==
    {PyInt(k) : k \in (-6)..MaxStart} \cup {PyInt(220), PyFloat(6), PyNone}

\* the effect of an aliquot_sequence call that leaves the table as r.st and
\* Aliquot.status as r.status
AliquotCalled(n, f, r) ==
    /\ odd_primes_list' = r.st.list
    /\ small_primes_set' = r.st.set
    /\ last_tested' = r.st.last
    /\ op' = "aliquot_sequence"
    /\ arg' = n
    /\ flag' = f
    /\ result' = r.st.res
    /\ tested' = r.st.tested
    /\ calls' = r.st.calls
    /\ status' = r.status
    /\ UNCHANGED <<frame, threads>>

\* Aliquot.aliquot_sequence(n, max_length, largest, largest_prime)
CallAliquotSequence ==
    /\ Idle
    /\ last_tested >= 21
    /\ \E n \in AliquotStarts : \E max_length \in {0, 3, 50} :
       \E largest \in {40, 100000} : \E largest_prime \in {21, 31, 100000} :
           AliquotCalled(n, <<max_length, largest, largest_prime>>,
                         AliquotSequence(Table, n, max_length, largest,
                                         largest_prime))

\* the lists pad_periodic_seq is given: the last term occurred before
PeriodicSeqs ==
    {seq \in UNION {[1..len -> 1..3] : len \in 2..4} :
         \E i \in 1..(Len(seq) - 1) : seq[i] = seq[Len(seq)]}
    \cup {<<6, 6>>, <<284, 220, 284>>}

\* pad_periodic_seq(seq, length); lines 246-248 call it when the status is
\* PERIODIC
CallPadPeriodicSeq ==
    /\ Idle
    /\ status = PERIODIC
    /\ \E seq \in PeriodicSeqs : \E length \in 0..MaxPad :
           /\ op' = "pad_periodic_seq"
           /\ arg' = seq
           /\ flag' = length
           /\ result' = PadPeriodicSeq(seq, length)
           /\ UNCHANGED <<odd_primes_list, small_primes_set, last_tested, tested,
                          calls, frame, status, threads>>

NextAliquot ==
    \/ ImportPrimality
    \/ CallAliquotSequence
    \/ CallPadPeriodicSeq
    \/ Return

SpecAliquot == Init /\ [][NextAliquot]_vars

(***************************************************************************)
(* Primes.sieve called by two threads on the shared table, primality.py:   *)
(* 87-105.  The interpreter may switch threads between any two steps of    *)
(* the loop: the steps are the loop test, "cls.last_tested += 2", the      *)
(* trial division of cls.last_tested, the append and the add; each reads   *)
(* cls.last_tested as it is at that moment.  threads.pc[t] is the step     *)
(* thread t takes next, threads.stop[t] and threads.is_prime[t] are its    *)
(* locals.  A caller may wrap the call in a lock shared by all callers:    *)
(* threads.lock is the thread that holds it (0: none), and threads.bare    *)
(* records that some call was made without it.                             *)
(***************************************************************************)
\* thread t acquires the lock and calls sieve(stop); lines 87-92 leave a
\* positive stop
TCallLocked(t) ==
    /\ threads.pc[t] = "idle"
    /\ threads.lock = 0
    /\ \E stop \in 1..MaxThreadStop :
           threads' = [threads EXCEPT !.pc[t] = "test", !.stop[t] = stop,
                                      !.lock = t]
    /\ UNCHANGED <<odd_primes_list, small_primes_set, last_tested, op, arg, flag,
                   result, tested, calls, frame, status>>

\* thread t calls sieve(stop) without taking the lock
TCallBare(t) ==
    /\ threads.pc[t] = "idle"
    /\ \E stop \in 1..MaxThreadStop :
           threads' = [threads EXCEPT !.pc[t] = "test", !.stop[t] = stop,
                                      !.bare = TRUE]
    /\ UNCHANGED <<odd_primes_list, small_primes_set, last_tested, op, arg, flag,
                   result, tested, calls, frame, status>>

\* line 96: "while stop > cls.last_tested"; when it fails sieve returns, and
\* a caller that holds the lock releases it
TTest(t) ==
    /\ threads.pc[t] = "test"
    /\ threads' = IF threads.stop[t] > last_tested
                  THEN [threads EXCEPT !.pc[t] = "advance"]
                  ELSE [threads EXCEPT !.pc[t] = "idle", !.stop[t] = 0,
                                       !.is_prime[t] = TRUE,
                                       !.lock = IF @ = t THEN 0 ELSE @]
    /\ UNCHANGED <<odd_primes_list, small_primes_set, last_tested, op, arg, flag,
                   result, tested, calls, frame, status>>

\* lines 97-98: "cls.last_tested += 2" and "is_prime = True"
TAdvance(t) ==
    /\ threads.pc[t] = "advance"
    /\ last_tested' = last_tested + 2
    /\ threads' = [threads EXCEPT !.pc[t] = "divide", !.is_prime[t] = TRUE]
    /\ UNCHANGED <<odd_primes_list, small_primes_set, op, arg, flag, result,
                   tested, calls, frame, status>>

\* lines 99-103: the trial division of cls.last_tested and "if is_prime"
TDivide(t) ==
    /\ threads.pc[t] = "divide"
    /\ LET is_prime == NoListedDivisor(odd_primes_list, last_tested)
       IN  threads' = [threads EXCEPT !.pc[t] = IF is_prime THEN "append" ELSE "test",
                                      !.is_prime[t] = is_prime]
    /\ UNCHANGED <<odd_primes_list, small_primes_set, last_tested, op, arg, flag,
                   result, tested, calls, frame, status>>

\* line 104: cls.odd_primes_list.append(cls.last_tested)
TAppend(t) ==
    /\ threads.pc[t] = "append"
    /\ odd_primes_list' = Append(odd_primes_list, last_tested)
    /\ threads' = [threads EXCEPT !.pc[t] = "add"]
    /\ UNCHANGED <<small_primes_set, last_tested, op, arg, flag, result, tested,
                   calls, frame, status>>

\* line 105: cls.small_primes_set.add(cls.last_tested)
TAdd(t) ==
    /\ threads.pc[t] = "add"
    /\ small_primes_set' = small_primes_set \cup {last_tested}
    /\ threads' = [threads EXCEPT !.pc[t] = "test"]
    /\ UNCHANGED <<odd_primes_list, last_tested, op, arg, flag, result, tested,
                   calls, frame, status>>

NextThreads ==
    \E t \in Threads :
        \/ TCallLocked(t)
        \/ TCallBare(t)
        \/ TTest(t)
        \/ TAdvance(t)
        \/ TDivide(t)
        \/ TAppend(t)
        \/ TAdd(t)

SpecThreads == Init /\ [][NextThreads]_vars

(***************************************************************************)
(* sylvester and harmonic called with fractions.  frame holds the          *)
(* arguments of the call (x0, epsilon, debug); harmonic is one step, and   *)
(* sylvester runs pass by pass with its locals x and result in frame.      *)
(***************************************************************************)
\* the arguments x: the fractions of [0, 2] with a denominator in 1..MaxDen
Rationals == {Fraction(p, q) : p \in 0..(2 * MaxDen), q \in 1..MaxDen} \ 
             {x \in {Fraction(p, q) : p \in 0..(2 * MaxDen), q \in 1..MaxDen} :
                  FracLess(<<2, 1>>, x)}

\* the arguments epsilon: zero, the unit fractions, and a negative one
Epsilons == {<<0, 1>>, <<-1, 2>>} \cup {<<1, b>> : b \in 1..MaxDen}

\* harmonic(x, epsilon, debug)
CallHarmonic ==
    /\ Idle
    /\ \E x \in Rationals \cup {<<-1, 2>>} : \E epsilon \in Epsilons :
       \E debug \in BOOLEAN :
           /\ op' = "harmonic"
           /\ result' = Harmonic(x, epsilon, debug)
           /\ frame' = [pc |-> "done", x0 |-> x, epsilon |-> epsilon,
                        debug |-> debug, x |-> x, result |-> <<>>]
           /\ UNCHANGED <<odd_primes_list, small_primes_set, last_tested, arg,
                          flag, tested, calls, status, threads>>

\* sylvester(x, epsilon, debug) is called and runs up to its loop
SylCall ==
    /\ Idle
    /\ \E x \in Rationals : \E epsilon \in Epsilons : \E debug \in BOOLEAN :
           LET check == EpsilonCheck(epsilon, debug)
               entry == SylvesterEntry(x)
           IN  /\ op' = "sylvester"
               /\ result' = check
               /\ frame' = [pc |-> IF check # PyNone THEN "done" ELSE "loop",
                            x0 |-> x, epsilon |-> epsilon, debug |-> debug,
                            x |-> entry.x, result |-> entry.result]
               /\ UNCHANGED <<odd_primes_list, small_primes_set, last_tested,
                              arg, flag, tested, calls, status, threads>>

\* sylvester.py lines 121-124: one pass of "while x > epsilon"
SylPass ==
    /\ frame.pc = "loop"
    /\ FracLess(frame.epsilon, frame.x)
    /\ LET loc == SylvesterPass([x |-> frame.x, result |-> frame.result])
       IN  frame' = [frame EXCEPT !.x = loc.x, !.result = loc.result]
    /\ UNCHANGED <<odd_primes_list, small_primes_set, last_tested, op, arg, flag,
                   result, tested, calls, status, threads>>

\* lines 121 and 125: the loop test fails, "return result"
SylReturn ==
    /\ frame.pc = "loop"
    /\ ~FracLess(frame.epsilon, frame.x)
    /\ frame' = [frame EXCEPT !.pc = "done"]
    /\ result' = PyList(frame.result)
    /\ UNCHANGED <<odd_primes_list, small_primes_set, last_tested, op, arg, flag,
                   tested, calls, status, threads>>

\* the next step of a sylvester that is running
SylStep ==
    \/ SylPass
    \/ SylReturn

NextFractions ==
    \/ CallHarmonic
    \/ SylCall
    \/ SylStep
    \/ Return

\* the interpreter keeps executing a call that has begun
SpecFractions ==
    /\ Init
    /\ [][NextFractions]_vars
    /\ WF_vars(SylStep)

(***************************************************************************)
(* Reference definitions: what the results are compared with.              *)
(***************************************************************************)
\* m is a prime number, by trial division by every smaller number
PrimeBrute(m) == m >= 2 /\ \A k \in 2..(m - 1) : m % k # 0

\* the elements of a sequence
Elements(seq) == {seq[i] : i \in 1..Len(seq)}

StrictlyAscending(seq) == \A i \in 1..(Len(seq) - 1) : seq[i] < seq[i + 1]

\* the table did not change in this step
TableUnchanged == UNCHANGED <<odd_primes_list, small_primes_set, last_tested>>

\* the table grew during the call that just returned
Grew == tested # <<>>

(***************************************************************************)
(* C1.  Sieve invariant: in every reachable state odd_primes_list is       *)
(* strictly ascending and holds exactly the odd primes <= last_tested,     *)
(* small_primes_set is {2} plus the elements of the list, and last_tested  *)
(* is odd and at least the largest prime of the list.                      *)
(***************************************************************************)
C1_SieveInvariant ==
    /\ StrictlyAscending(odd_primes_list)
    /\ Elements(odd_primes_list) = {m \in 3..last_tested : PrimeBrute(m)}
    /\ small_primes_set = {2} \cup Elements(odd_primes_list)
    /\ last_tested % 2 = 1
    /\ Len(odd_primes_list) > 0
    /\ last_tested >= odd_primes_list[Len(odd_primes_list)]

\* the table after several growing calls of different operations
C1_Witness ==
    /\ op = "totient"
    /\ Grew
    /\ tested[1] > 21
    /\ 37 \in small_primes_set

C3_NoOpAsClaimed ==
    [][(op' = "sieve" /\ (arg' = 0 \/ arg' < 0 \/ Abs(arg') <= 2 * last_tested))
          => TableUnchanged]_vars

(***************************************************************************)
(* C3, amended.  sieve(stop) leaves the table unchanged exactly when stop  *)
(* is zero or |stop| <= last_tested; a negative stop counts as |stop|.     *)
(***************************************************************************)
C3_NoOpIffCovered ==
    [][op' = "sieve"
          => (TableUnchanged <=> (arg' = 0 \/ Abs(arg') <= 2 * last_tested))]_vars

\* sieve(-18.5) called with last_tested below 18.5: the table grows to 19
C3_Witness ==
    /\ op = "sieve"
    /\ arg = -37
    /\ last_tested = 19
    /\ Grew

(***************************************************************************)
(* C4.  The table is append-only and monotone: in every step last_tested   *)
(* does not decrease, odd_primes_list keeps its entries and only gains     *)
(* values larger than everything before them, small_primes_set only gains  *)
(* elements, and every candidate tested during a call is above the         *)
(* last_tested the call started from, each tested once.                    *)
(***************************************************************************)
C4_AppendOnly ==
    [][/\ last_tested' >= last_tested
       /\ Len(odd_primes_list') >= Len(odd_primes_list)
       /\ SubSeq(odd_primes_list', 1, Len(odd_primes_list)) = odd_primes_list
       /\ \A i \in (Len(odd_primes_list) + 1)..Len(odd_primes_list') :
              odd_primes_list'[i] > odd_primes_list'[i - 1]
       /\ small_primes_set \subseteq small_primes_set'
       /\ \A i \in 1..Len(tested') : tested'[i] > last_tested
       /\ StrictlyAscending(tested')]_vars

\* a call that grew a table that earlier calls had already grown
C4_Witness ==
    /\ op = "factor_slow"
    /\ Grew
    /\ tested[1] > 11
    /\ Len(odd_primes_list) > 8

(***************************************************************************)
(* C5.  is_irreducible(n, sieve=True) returns an exact boolean, never      *)
(* Maybe: True iff |n| is a prime number, from any reachable table.        *)
(***************************************************************************)
C5_SieveExact ==
    (op = "is_irreducible" /\ flag = 1) =>
        /\ result \in {PyTrue, PyFalse}
        /\ (result = PyTrue) <=> PrimeBrute(Abs(arg))

\* is_irreducible(-37) had to grow the table and answered True
C5_Witness ==
    /\ op = "is_irreducible"
    /\ flag = 1
    /\ arg = -37
    /\ Grew
    /\ result = PyTrue

\* a known prime (2 or a member of odd_primes_list) divides a
KnownPrimeDivides(a) ==
    a % 2 = 0 \/ \E i \in 1..Len(odd_primes_list) : a % odd_primes_list[i] = 0

\* the case in which sieve=False cannot decide
UnknownCase(a) == last_tested * last_tested <= a /\ ~KnownPrimeDivides(a)

(***************************************************************************)
(* C6.  As claimed: is_irreducible(n, sieve=False) returns Maybe exactly   *)
(* when last_tested^2 <= |n| and no known prime divides n; in every other  *)
(* case the correct boolean; in particular True for any |n| <              *)
(* last_tested^2 that no known prime divides.                              *)
(***************************************************************************)
C6_NoSieveAsClaimed ==
    (op = "is_irreducible" /\ flag = 0) =>
        LET a == Abs(arg)
        IN  /\ (result = Maybe) <=> UnknownCase(a)
            /\ ~UnknownCase(a) => result = PyBool(PrimeBrute(a))
            /\ (a < last_tested * last_tested /\ ~KnownPrimeDivides(a))
                   => result = PyTrue

(***************************************************************************)
(* C6, amended.  The same, the last part for 1 < |n| < last_tested^2: no   *)
(* prime divides 1 or -1, and is_irreducible answers False for them.       *)
(***************************************************************************)
C6_NoSieveTernary ==
    (op = "is_irreducible" /\ flag = 0) =>
        LET a == Abs(arg)
        IN  /\ (result = Maybe) <=> UnknownCase(a)
            /\ ~UnknownCase(a) => result = PyBool(PrimeBrute(a))
            /\ (1 < a /\ a < last_tested * last_tested /\ ~KnownPrimeDivides(a))
                   => result = PyTrue

\* 127 is prime, no prime up to 9 divides it and 81 <= 127: Maybe
C6_Witness ==
    /\ op = "is_irreducible"
    /\ flag = 0
    /\ arg = 127
    /\ last_tested = 9
    /\ result = Maybe

(***************************************************************************)
(* C7.  With sieving enabled: is_prime(0) is True and is_irreducible(0) is *)
(* False; is_prime(n) is is_irreducible(n) for n # 0; for |n| = 1 is_unit  *)
(* is True and is_prime and is_composite are False; 0 is not composite;    *)
(* every other integer is exactly one of prime and composite.              *)
(***************************************************************************)
C7_Conventions ==
    /\ (op = "is_irreducible" /\ flag = 1 /\ arg = 0) => result = PyFalse
    /\ (op = "is_prime" /\ flag = 1) =>
           /\ arg = 0 => result = PyTrue
           /\ arg # 0 => /\ result = PyBool(PrimeBrute(Abs(arg)))
                         /\ result = IsIrreducible(Table, arg, TRUE).res
           /\ Abs(arg) = 1 => result = PyFalse
    /\ op = "is_unit" => (result = PyTrue <=> Abs(arg) = 1)
    /\ (op = "is_composite" /\ flag = 1) =>
           /\ Abs(arg) = 1 => result = PyFalse
           /\ arg = 0 => result = PyFalse
           /\ Abs(arg) > 1 => /\ result = PyBool(~PrimeBrute(Abs(arg)))
                              /\ result = NegateTernary(IsPrime(Table, arg, TRUE).res)

\* is_composite(-39) with sieving: the table grew and the answer is True
C7_Witness ==
    /\ op = "is_composite"
    /\ flag = 1
    /\ arg = -39
    /\ Grew
    /\ result = PyTrue

\* the oracle's result is neither True nor False
ResultUnknown ==
    /\ op \in {"is_irreducible", "is_prime", "is_composite"}
    /\ result \notin {PyTrue, PyFalse}

C9_RoundTrip ==
    op = "factor_slow" =>
        /\ PyEq(Multiply(result), PyInt(arg))
        /\ arg = 0 => (result[1] = "int" /\ result[2] = 0)
        /\ arg # 0 => result[1] = "list"

\* factor_slow(-38) grew the table to find 19
C9_Witness ==
    /\ op = "factor_slow"
    /\ arg = -38
    /\ Grew
    /\ result = PyList(<<<<-1>>, <<2, 1>>, <<19, 1>>>>)

(***************************************************************************)
(* C10.  For n # 0, factor_slow(n) is a list: first the unit (+1 for       *)
(* n > 0, -1 for n < 0), then pairs [p, e] with p a positive prime and     *)
(* e >= 1 the exact multiplicity of p in |n|, the primes strictly          *)
(* ascending, one pair for each prime divisor of n (none for |n| = 1).     *)
(***************************************************************************)
C10_Factorization ==
    (op = "factor_slow" /\ arg # 0) =>
        /\ result[1] = "list"
        /\ LET f == result[2]
               a == Abs(arg)
           IN  /\ Len(f) >= 1
               /\ Len(f[1]) = 1
               /\ f[1][1] = (IF arg > 0 THEN 1 ELSE -1)
               /\ \A i \in 2..Len(f) :
                      /\ Len(f[i]) = 2
                      /\ PrimeBrute(f[i][1])
                      /\ f[i][2] >= 1
                      /\ a % Pow(f[i][1], f[i][2]) = 0
                      /\ a % Pow(f[i][1], f[i][2] + 1) # 0
               /\ \A i \in 2..(Len(f) - 1) : f[i][1] < f[i + 1][1]
               /\ {f[i][1] : i \in 2..Len(f)} = {p \in 2..a : PrimeBrute(p) /\ a % p = 0}
               /\ a = 1 => Len(f) = 1

\* factor_slow(-44) = [-1, [2,2], [11,1]], 11 found by growing the table
C10_Witness ==
    /\ op = "factor_slow"
    /\ arg = -44
    /\ Grew
    /\ result = PyList(<<<<-1>>, <<2, 2>>, <<11, 1>>>>)

\* the greatest common divisor of a >= 0 and b >= 0, by Euclid
RECURSIVE Gcd(_, _)
Gcd(a, b) == IF b = 0 THEN a ELSE Gcd(b, a % b)

\* the positive divisors of a >= 1
Divisors(a) == {k \in 1..a : a % k = 0}

(***************************************************************************)
(* C12.  d(0) is +infinity, d(1) = d(-1) = 1, and for every other n d(n)   *)
(* is the number of positive divisors of |n|, counted one by one; so       *)
(* d(-n) = d(n).                                                           *)
(***************************************************************************)
C12_DivisorCount ==
    op = "d" =>
        /\ arg = 0 => result = PyInf
        /\ Abs(arg) = 1 => result = PyInt(1)
        /\ arg # 0 => result = PyInt(Cardinality(Divisors(Abs(arg))))
        /\ result = D(Table, -arg).res

\* d(-44) = 6, 11 found by growing the table
C12_Witness ==
    /\ op = "d"
    /\ arg = -44
    /\ Grew
    /\ result = PyInt(6)

(***************************************************************************)
(* C13.  Multiplicativity: for coprime positive m and n and every k >= 0,  *)
(* d(m*n) = d(m)*d(n) and sigma(m*n, k) = sigma(m, k)*sigma(n, k).  The    *)
(* value just returned for m*n is compared with the values at m and n.     *)
(***************************************************************************)
C13_Multiplicative ==
    (op \in {"d", "sigma"} /\ arg > 0) =>
        \A m \in Divisors(arg) :
            Gcd(m, arg \div m) = 1 =>
                IF op = "d"
                THEN result[2] = D(Table, m).res[2] * D(Table, arg \div m).res[2]
                ELSE result[2] = Sigma(Table, m, flag).res[2]
                                     * Sigma(Table, arg \div m, flag).res[2]

\* sigma(55, 2) = (1 + 25) * (1 + 121), 11 found by growing the table
C13_Witness ==
    /\ op = "sigma"
    /\ arg = 55
    /\ flag = 2
    /\ Grew
    /\ result = PyInt(26 * 122)

(***************************************************************************)
(* C14.  As claimed: sigma(0, k) returns NaN, a value distinct from 0 and  *)
(* from +infinity, for every exponent k.                                   *)
(***************************************************************************)
C14_SigmaZeroUndefined ==
    (op = "sigma" /\ arg = 0) =>
        /\ result = PyNaN
        /\ ~PyEq(result, PyInt(0))
        /\ ~PyEq(result, PyInf)

\* no prime square divides a >= 1
NoSquareDivides(a) == \A q \in 2..a : PrimeBrute(q) => a % (q * q) # 0

(***************************************************************************)
(* C18.  square_free(n) is 1 exactly when no prime square divides n and 0  *)
(* otherwise for n # 0, square_free(0) = 0 and square_free(-n) =           *)
(* square_free(n); 1 on {1,2,3,5,6,7,10,11,13,14,15,17,19,21,22,23} and 0  *)
(* on {4,8,9,12,16,18,20,24,25}.                                           *)
(***************************************************************************)
C18_SquareFree ==
    op = "square_free" =>
        /\ arg = 0 => result = PyInt(0)
        /\ arg # 0 => result = PyInt(IF NoSquareDivides(Abs(arg)) THEN 1 ELSE 0)
        /\ result = SquareFree(Table, -arg).res
        /\ Abs(arg) \in {1, 2, 3, 5, 6, 7, 10, 11, 13, 14, 15, 17, 19, 21, 22, 23}
               => result = PyInt(1)
        /\ Abs(arg) \in {4, 8, 9, 12, 16, 18, 20, 24, 25} => result = PyInt(0)

\* square_free(-44) = 0 because of 2^2, 11 found by growing the table
C18_Witness ==
    /\ op = "square_free"
    /\ arg = -44
    /\ Grew
    /\ result = PyInt(0)

\* the number of k in 1..a with gcd(k, a) = 1
CoprimeCount(a) == Cardinality({k \in 1..a : Gcd(k, a) = 1})

(***************************************************************************)
(* C19.  For n > 0 totient(n) is the number of k in 1..n with              *)
(* gcd(k, n) = 1; totient(-n) = -totient(n); totient(0) = 0.               *)
(***************************************************************************)
C19_Totient ==
    op = "totient" =>
        /\ arg > 0 => result = PyInt(CoprimeCount(arg))
        /\ arg < 0 => result = PyInt(-CoprimeCount(-arg))
        /\ arg = 0 => result = PyInt(0)
        /\ arg # 0 => result[2] = -Totient(Table, -arg).res[2]

\* totient(-44) = -20, 11 found by growing the table
C19_Witness ==
    /\ op = "totient"
    /\ arg = -44
    /\ Grew
    /\ result = PyInt(-20)

(***************************************************************************)
(* C15.  For n > 0 and k >= 1, sigma(n, k) is the sum of d^k over the      *)
(* positive divisors d of n, which is the product over the prime powers    *)
(* p^e of n of 1 + p^k + ... + p^(k*e); s(n) = sigma(n, 1) - n is the sum  *)
(* of the proper divisors of n: s(1) = 0, s(6) = 6, s(28) = 28,            *)
(* s(220) = 284, s(284) = 220.  On the sociable cycle 1264460 -> 1547860   *)
(* -> 1727636 -> 1305184 -> 1264460 the table would have to grow to 40787; *)
(* there sigma's loop is applied to the prime factorization of each        *)
(* member, the list factor_slow returns by C10.                            *)
(***************************************************************************)
\* the sum of the members of a finite set of integers
RECURSIVE SumOf(_)
SumOf(S) == IF S = {} THEN 0 ELSE LET x == CHOOSE y \in S : TRUE
                                  IN  x + SumOf(S \ {x})

\* the sum of d^k over the positive divisors d of a, one by one
RECURSIVE PowerSumUpTo(_, _, _)
PowerSumUpTo(a, k, d) ==
    IF d = 0 THEN 0
    ELSE (IF a % d = 0 THEN Pow(d, k) ELSE 0) + PowerSumUpTo(a, k, d - 1)

\* the product over the primes p dividing a of 1 + p^k + ... + p^(k*e),
\* p^e the exact power of p in a, over the primes p <= q
RECURSIVE PrimePowerProduct(_, _, _)
PrimePowerProduct(a, k, q) ==
    IF q < 2 THEN 1
    ELSE IF PrimeBrute(q) /\ a % q = 0
         THEN LET e == CHOOSE j \in 1..a : a % Pow(q, j) = 0 /\ a % Pow(q, j + 1) # 0
              IN  SumOf({Pow(q, k * j) : j \in 0..e}) * PrimePowerProduct(a, k, q - 1)
         ELSE PrimePowerProduct(a, k, q - 1)

\* the members of the sociable cycle of the self-test, lines 656-666, each
\* with its prime factorization
SociableCycle ==
    << <<1264460, <<<<1>>, <<2, 2>>, <<5, 1>>, <<17, 1>>, <<3719, 1>>>>>>,
       <<1547860, <<<<1>>, <<2, 2>>, <<5, 1>>, <<193, 1>>, <<401, 1>>>>>>,
       <<1727636, <<<<1>>, <<2, 2>>, <<521, 1>>, <<829, 1>>>>>>,
       <<1305184, <<<<1>>, <<2, 5>>, <<40787, 1>>>>>> >>

\* each list is the factorization of its member (its product is the
\* member, its primes are primes in ascending order), and sigma's loop over
\* it, less the member, gives the next member of the cycle
SociableCycleCloses ==
    \A i \in 1..4 :
        LET a == SociableCycle[i][1]
            factors == SociableCycle[i][2]
            next == SociableCycle[(i % 4) + 1][1]
        IN  /\ Multiply(PyList(factors)) = PyInt(a)
            /\ \A j \in 2..Len(factors) :
                   /\ PrimeBrute(factors[j][1])
                   /\ j > 2 => factors[j - 1][1] < factors[j][1]
            /\ SigmaProduct(1, factors, 1, 1) - a = next

RECURSIVE PairProduct(_, _, _)
PairProduct(f, factors, k) ==
    IF k = 0 THEN 1
    ELSE IF Len(factors[k]) = 2
         THEN PairProduct(f, factors, k - 1) * Evaluate(f, factors[k][1], factors[k][2])
         ELSE PairProduct(f, factors, k - 1)

C16_MultiplicativeExtension ==
    op = "wrapped_f" =>
        LET f == flag[1]
            minus1 == flag[2]
            zero == flag[3]
            pairs == FactorSlow(Table, Abs(arg)).res[2]
            atAbs == WrappedF(f, minus1, zero, Table, Abs(arg)).res
        IN  /\ minus1 \in {-1, 0, 1}
            /\ arg = 0 => (result = zero /\ calls = <<>>)
            /\ arg # 0 =>
                   /\ result = PyInt((IF arg > 0 THEN 1 ELSE minus1)
                                     * PairProduct(f, pairs, Len(pairs)))
                   /\ calls = SelectSeq(pairs, LAMBDA x : Len(x) = 2)
            /\ arg = 1 => result = PyInt(1)
            /\ arg = -1 => result = PyInt(minus1)
            /\ arg < 0 => result = PyInt(minus1 * atAbs[2])
            /\ \A i \in 1..Len(calls) : PrimeBrute(calls[i][1]) /\ calls[i][2] >= 1

\* totient under the conventions (1, inf) at -44 = -(2^2 * 11): the sieve
\* grew, f was called with (2, 2) and (11, 1), the value is 1 * 2 * 10
C16_Witness ==
    /\ op = "wrapped_f"
    /\ flag = <<"totient", 1, PyInf>>
    /\ arg = -44
    /\ Grew
    /\ calls = <<<<2, 2>>, <<11, 1>>>>
    /\ result = PyInt(20)

(***************************************************************************)
(* C17.  multiplicative(minus1, zero) succeeds for each of the nine        *)
(* combinations of minus1 in {-1, 0, 1} with zero in {0, +inf, NaN}, and   *)
(* raises ValueError at registration for any other value of either         *)
(* argument, before an evaluator is wrapped or called.                     *)
(***************************************************************************)
C17_RegistrationAsDocumented ==
    op = "multiplicative" =>
        LET legal == arg \in {-1, 0, 1} /\ flag \in {PyInt(0), PyInf, PyNaN}
        IN  /\ legal => result = <<"wrap", <<arg, flag>>>>
            /\ ~legal => (result = <<"raise", "ValueError">> /\ calls = <<>>)

(***************************************************************************)
(* C20.  multiply fails on malformed input instead of returning a product: *)
(* a pair with a negative integer exponent raises ValueError, a pair whose *)
(* exponent is not an integer raises TypeError (the first malformed pair   *)
(* decides), an argument that is neither a list nor equal to 0 raises      *)
(* TypeError; the table is not changed.                                    *)
(***************************************************************************)
\* the positions of the malformed pairs of a factor list
Malformed(factors) ==
    {i \in 1..Len(factors) :
        \/ Len(factors[i]) = 3
        \/ Len(factors[i]) = 2 /\ factors[i][2] < 0}

C20_MultiplyRejects ==
    [][op' = "multiply" =>
        /\ TableUnchanged
        /\ (arg'[1] # "list" /\ ~PyEq(arg', PyInt(0)))
               => result' = <<"raise", "TypeError">>
        /\ (arg'[1] = "list" /\ Malformed(arg'[2]) # {}) =>
               LET bad == Malformed(arg'[2])
                   first == CHOOSE i \in bad : \A j \in bad : i <= j
               IN  result' = <<"raise", IF Len(arg'[2][first]) = 3
                                        THEN "TypeError" ELSE "ValueError">>
        /\ (arg'[1] = "list" /\ Malformed(arg'[2]) = {}) => result'[1] = "int"]_vars

\* a list whose third element has a negative exponent, on a grown table
C20_Witness ==
    /\ op = "multiply"
    /\ arg = PyList(<<<<1>>, <<2, 3>>, <<3, -2>>, <<5, 1>>>>)
    /\ last_tested > 9
    /\ result = <<"raise", "ValueError">>

(***************************************************************************)
(* C11.  factor_slow(n) terminates for every nonzero n from every          *)
(* reachable table: the cofactor never increases and stays >= 1; the       *)
(* target int(last_tested * phi) of a pass of the growth loop exceeds      *)
(* last_tested and the sieve has reached it when the pass strips the new   *)
(* primes, so every pass strictly raises last_tested; a call that has      *)
(* begun returns, its cofactor then being 1.                               *)
(***************************************************************************)
C11_Terminates ==
    /\ [](frame.pc = "strip" => last_tested >= frame.stop)
    /\ [][/\ (frame.pc = "none" /\ frame'.pc \in {"while", "return"})
                 => (frame'.n >= 1 /\ frame'.n <= Abs(arg'))
          /\ (frame.pc \notin {"none", "done"})
                 => (frame'.n <= frame.n /\ frame'.n >= 1)
          /\ (frame.pc = "while" /\ frame'.pc = "sieve")
                 => (frame'.stop = IntPhiTimes(last_tested)
                     /\ frame'.stop > last_tested)
          /\ last_tested' >= last_tested]_vars
    /\ (op = "factor_slow" /\ arg # 0)
           ~> (frame.pc = "done" /\ frame.n = 1 /\ result[1] = "list")

\* factor_slow(-59) from the initial table has returned after the passes
\* with targets 14, 24, 40 and 66 that brought 59 into the list
C11_Witness ==
    /\ frame.pc = "done"
    /\ arg = -59
    /\ tested # <<>>
    /\ tested[1] = 11
    /\ frame.stop = 66
    /\ last_tested = 67
    /\ result = PyList(<<<<-1>>, <<59, 1>>>>)

(***************************************************************************)
(* C21.  Non-integer input fails immediately: is_irreducible, is_prime,    *)
(* is_composite, factor_slow, d, sigma and s raise TypeError for every     *)
(* argument that is not an integer, floats of integral value included,     *)
(* and leave the table unchanged.                                          *)
(***************************************************************************)
C21_NonIntegerRaises ==
    [][op' = "non_integer" =>
          /\ result' = <<"raise", "TypeError">>
          /\ UNCHANGED <<odd_primes_list, small_primes_set, last_tested>>]_vars

(***************************************************************************)
(* C28.  No short-circuit in factoring: after factor_slow(n), n # 0, every *)
(* prime factor q of n is in the table and last_tested >= q: when the      *)
(* cofactor left by the listed primes is a prime q > last_tested, the call *)
(* has grown the sieve up to q, even when q was already below the square   *)
(* of last_tested.                                                         *)
(***************************************************************************)
C28_NoShortCircuit ==
    (op = "factor_slow" /\ arg # 0) =>
        \A q \in 2..Abs(arg) :
            (PrimeBrute(q) /\ arg % q = 0) =>
                /\ q \in small_primes_set
                /\ q <= last_tested
                /\ (q > 2 => q \in Elements(odd_primes_list))

\* factor_slow(53) from the initial table: 53 < 9 * 9, and the sieve was
\* grown from 11 on until it held 53
C28_Witness ==
    /\ op = "factor_slow"
    /\ arg = 53
    /\ tested # <<>>
    /\ tested[1] = 11
    /\ 53 \in small_primes_set
    /\ last_tested >= 53
    /\ result = PyList(<<<<1>>, <<53, 1>>>>)

(***************************************************************************)
(* C29.  Results do not depend on the sieve history: whatever table a call *)
(* started from, is_irreducible, is_prime and is_composite with sieving    *)
(* enabled, factor_slow, d, sigma, s, square_free and totient return the   *)
(* value the same call returns from the table of a fresh process.          *)
(***************************************************************************)
\* the table of a process that has made no call yet, primality.py:70-72
FreshTable ==
    [list |-> <<3, 5, 7>>, set |-> {2, 3, 5, 7}, last |-> 9,
     tested |-> <<>>, calls |-> <<>>, res |-> PyNone]

C29_HistoryIndependent ==
    /\ (op = "is_irreducible" /\ flag = 1)
           => result = IsIrreducible(FreshTable, arg, TRUE).res
    /\ (op = "is_prime" /\ flag = 1)
           => result = IsPrime(FreshTable, arg, TRUE).res
    /\ (op = "is_composite" /\ flag = 1)
           => result = IsComposite(FreshTable, arg, TRUE).res
    /\ op = "factor_slow" => result = FactorSlow(FreshTable, arg).res
    /\ op = "d" => result = D(FreshTable, arg).res
    /\ op = "sigma" => result = Sigma(FreshTable, arg, flag).res
    /\ op = "s" => result = ProperDivisorSum(FreshTable, arg).res
    /\ op = "square_free" => result = SquareFree(FreshTable, arg).res
    /\ op = "totient" => result = Totient(FreshTable, arg).res

\* d(22) on a table that earlier calls had grown past 11: the value of a
\* fresh process, which would have had to grow its table
C29_Witness ==
    /\ op = "d"
    /\ arg = 22
    /\ tested = <<>>
    /\ last_tested > D(FreshTable, 22).last
    /\ D(FreshTable, 22).tested # <<>>
    /\ result = PyInt(4)

(***************************************************************************)
(* C30.  Read-only queries leave the sieve untouched: is_irreducible,      *)
(* is_prime and is_composite called with sieve=False, and is_unit,         *)
(* extract_power and multiply, change none of odd_primes_list,             *)
(* small_primes_set and last_tested, whatever they return.                 *)
(***************************************************************************)
C30_ReadOnly ==
    [][(\/ op' \in {"is_irreducible", "is_prime", "is_composite"} /\ flag' = 0
        \/ op' \in {"is_unit", "extract_power", "multiply"})
       => UNCHANGED <<odd_primes_list, small_primes_set, last_tested>>]_vars

\* is_composite(169, sieve=False) on the initial table: 13 * 13 is beyond
\* 9 * 9, the answer is Unknown and nothing was sieved
C30_Witness ==
    /\ op = "is_composite"
    /\ flag = 0
    /\ arg = 169
    /\ last_tested = 9
    /\ odd_primes_list = <<3, 5, 7>>
    /\ ResultUnknown

(***************************************************************************)
(* C23.  aliquot_sequence sets Aliquot.status to PREMATURE_TERMINATION on  *)
(* entry, so that is the status after a call that raised, and on every     *)
(* normal return to the reason of the return: the first, in the order      *)
(* TERMINATING (last term 0), PERIODIC (last term equals an earlier term   *)
(* of the returned list), LENGTH_EXCEEDED (the list reached max_length),   *)
(* LARGEST_EXCEEDED (last term > largest), SIEVE_OVERFLOW (largest listed  *)
(* prime > largest_prime), that holds of the last term, none of the first  *)
(* four holding of an earlier term.                                        *)
(***************************************************************************)
C23_StatusTellsReason ==
    op = "aliquot_sequence" =>
        IF result[1] = "raise" THEN status = PREMATURE_TERMINATION
        ELSE LET seq == result[2]
                 len == Len(seq)
                 Zero(i) == PyEq(seq[i], PyInt(0))
                 Repeats(i) == \E j \in 1..(i - 1) : PyEq(seq[j], seq[i])
                 TooLong(i) == i >= flag[1]
                 TooLarge(i) == IsNumber(seq[i]) /\ seq[i][2] > flag[2]
             IN  /\ len >= 1
                 /\ status = (IF Zero(len) THEN TERMINATING
                              ELSE IF Repeats(len) THEN PERIODIC
                              ELSE IF TooLong(len) THEN LENGTH_EXCEEDED
                              ELSE IF TooLarge(len) THEN LARGEST_EXCEEDED
                              ELSE SIEVE_OVERFLOW)
                 /\ status = SIEVE_OVERFLOW
                        => odd_primes_list[Len(odd_primes_list)] > flag[3]
                 /\ \A i \in 1..(len - 1) :
                        ~Zero(i) /\ ~Repeats(i) /\ ~TooLong(i) /\ ~TooLarge(i)

\* aliquot_sequence(30, max_length=0, largest=40) returned [42]: the term is
\* too large and the list too long, and the status is LENGTH_EXCEEDED
C23_Witness ==
    /\ op = "aliquot_sequence"
    /\ arg = PyInt(30)
    /\ flag[1] = 0
    /\ flag[2] = 40
    /\ result = PyList(<<PyInt(42)>>)
    /\ status = LENGTH_EXCEEDED

(***************************************************************************)
(* C24.  aliquot_sequence keeps the primes obtained by sieving at or below *)
(* largest_prime: a call made when the table holds no prime above          *)
(* largest_prime leaves no prime above largest_prime in the table.         *)
(***************************************************************************)
C24_SieveCeiling ==
    [][(/\ op' = "aliquot_sequence"
        /\ odd_primes_list[Len(odd_primes_list)] <= flag'[3])
           => odd_primes_list'[Len(odd_primes_list')] <= flag'[3]]_vars

(***************************************************************************)
(* C25.  pad_periodic_seq(seq, length) leaves the terms of seq as they     *)
(* were and appends terms until the list has length terms, every appended  *)
(* term equal to the term P positions before it, P the period: the         *)
(* distance from the last term of seq to the nearest earlier equal term.   *)
(***************************************************************************)
C25_PadsPeriodically ==
    op = "pad_periodic_seq" =>
        LET P == CHOOSE k \in 1..(Len(arg) - 1) :
                     /\ arg[Len(arg) - k] = arg[Len(arg)]
                     /\ \A j \in 1..(k - 1) : arg[Len(arg) - j] # arg[Len(arg)]
        IN  /\ Len(result) = IF Len(arg) < flag THEN flag ELSE Len(arg)
            /\ SubSeq(result, 1, Len(arg)) = arg
            /\ \A i \in (Len(arg) + 1)..Len(result) : result[i] = result[i - P]

(***************************************************************************)
(* C22.  Sieve growth is not atomic.  When every sieve call so far was     *)
(* made under the one lock, the sieve invariant holds whenever the lock is *)
(* free or its holder stands at the loop test: the list is strictly        *)
(* ascending and holds exactly the odd primes <= last_tested, and the set  *)
(* is {2} plus the list.  (The witness is the other half: after calls made *)
(* without the lock have all returned, an odd prime <= last_tested is      *)
(* missing, a value is in the list twice, and list and set disagree.)      *)
(***************************************************************************)
C22_LockedGrowthKeepsInvariant ==
    (/\ ~threads.bare
     /\ threads.lock = 0 \/ threads.pc[threads.lock] = "test")
        => /\ StrictlyAscending(odd_primes_list)
           /\ Elements(odd_primes_list) = {m \in 3..last_tested : PrimeBrute(m)}
           /\ small_primes_set = {2} \cup Elements(odd_primes_list)

\* both threads are back from sieve calls made without the lock, and the
\* table is broken in each of the three ways
C22_Witness ==
    /\ threads.bare
    /\ threads.lock = 0
    /\ \A t \in Threads : threads.pc[t] = "idle"
    /\ \E m \in 3..last_tested : PrimeBrute(m) /\ m \notin Elements(odd_primes_list)
    /\ \E i, j \in 1..Len(odd_primes_list) : i < j /\ odd_primes_list[i] = odd_primes_list[j]
    /\ small_primes_set # {2} \cup Elements(odd_primes_list)

(***************************************************************************)
(* C26.  For every rational x with 0 < x < 1 and every epsilon >= 0,       *)
(* harmonic(x, epsilon) returns the denominators of Sylvester's algorithm: *)
(* harmonic(x, epsilon) == sylvester(x, epsilon, debug=False)[1:].         *)
(***************************************************************************)
C26_HarmonicIsSylvester ==
    (/\ op = "harmonic"
     /\ FracLess(<<0, 1>>, frame.x0) /\ FracLess(frame.x0, <<1, 1>>)
     /\ ~FracLess(frame.epsilon, <<0, 1>>)
     /\ ~frame.debug)
        => result = PyList(Tail(Sylvester(frame.x0, frame.epsilon, FALSE)[2]))

(***************************************************************************)
(* C27.  For every rational x >= 0, sylvester(x, 0, debug=False)           *)
(* terminates, and the list it returns starts with floor(x), has the value *)
(* x exactly, and has no more unit-fraction denominators than the          *)
(* numerator of x - floor(x) in lowest terms.                              *)
(***************************************************************************)
C27_SylvesterExact ==
    /\ []((/\ op = "sylvester"
           /\ frame.epsilon = <<0, 1>> /\ ~frame.debug
           /\ frame.pc = "done")
              => /\ result[1] = "list"
                 /\ result[2][1] = Floor(frame.x0)
                 /\ ValueOf(result[2]) = frame.x0
                 /\ Len(result[2]) - 1
                        <= FracMinus(frame.x0, <<Floor(frame.x0), 1>>)[1])
    /\ (op = "sylvester" /\ frame.epsilon = <<0, 1>> /\ ~frame.debug)
           ~> (frame.pc = "done")

\* sylvester(Fraction(10, 7), 0, debug=False) returned [1, 3, 11, 231]: as
\* many denominators as the numerator of 3/7
C27_Witness ==
    /\ op = "sylvester"
    /\ frame.x0 = <<10, 7>>
    /\ frame.epsilon = <<0, 1>> /\ ~frame.debug
    /\ frame.pc = "done"
    /\ result = PyList(<<1, 3, 11, 231>>)

====
